---------------------------- MODULE Spec2Model ----------------------------
(***************************************************************************)
(* Verification model of the subsai karaoke computation layer:             *)
(*   - KaraokeGenerator (src/src/subsai/karaoke_generator.py): word        *)
(*     timing extraction and greedy grouping into caption lines;           *)
(*   - get_resolution_scale_params (src/src/subsai/video_uniqueness.py)    *)
(*     and the crop calculation of Tools.burn_karaoke_subtitles            *)
(*     (src/src/subsai/main.py);                                           *)
(*   - calculate_uniqueness_params / generate_random_metadata              *)
(*     (src/src/subsai/video_uniqueness.py), which draw from the           *)
(*     process-wide `random` module.                                       *)
(* Each subsystem has its own specification over the shared variables.     *)
(***************************************************************************)
EXTENDS Integers, Sequences, FiniteSets, TLC

VARIABLES
    \* ---- KaraokeGenerator ----
    subs,                   \* input SSAFile: sequence of [start, end, text]
    cfg_words_per_line,     \* words_per_line as passed to __init__
    words_per_line,         \* self.words_per_line
    max_line_duration_ms,   \* self.max_line_duration_ms
    words,                  \* result of _extract_word_timings
    lines,                  \* result of _group_words_by_lines
    karaoke_subs,           \* events appended by generate
    gen_style,              \* self.style
    gen_pc,                 \* "ready" | "done" | "raised"
    \* ---- get_style and the KaraokeStyle accessors ----
    style_args,             \* the arguments of get_style
    style,                  \* the instance get_style returned
    got,                    \* what each accessor returned or raised, once called
    style_pc,               \* "ready" | "resolved"
    \* ---- _create_karaoke_tags ----
    caption_words,          \* words: the words of one caption line
    render_style,           \* self.style
    max_line_width_px,      \* self.max_line_width_px
    result_list,            \* result: the pieces appended so far
    current_line_width,     \* running width, in tenths of a pixel
    word_index,             \* position of the loop over the words
    render_pc,              \* "ready" | "wrap" | "done"
    \* ---- the video filter chain ----
    filter_args,            \* who builds the chain, and from what
    video_filter,           \* the chain, one element per filter
    filter_pc,              \* "ready" | "done"
    \* ---- Tools.burn_karaoke_subtitles: frame geometry ----
    frame,                  \* probed stream: [width, height, rotation]
    aspect_ratio,           \* the aspect_ratio argument
    min_resolution,         \* the min_resolution argument
    original_width,         \* after the rotation swap
    original_height,
    scale_result,           \* what get_resolution_scale_params returned
    scale_params,           \* scale_params when the filter chain is built
    crop_filter,            \* crop_filter when the filter chain is built
    crop_path,              \* branch of the crop calculation that ran
    geo_pc,                 \* "ready" | "done"
    \* ---- calculate_uniqueness_params ----
    rng,                    \* state of the module-level `random` generator
    clock,                  \* datetime.now()
    workers,                \* threads running process_single_video
    call,                   \* per thread: position in calculate_uniqueness_params
    calls_left,             \* videos still to be processed
    results,                \* returned profiles in return order, with their inputs
    \* ---- api_service: jobs and their background tasks ----
    jobs,                   \* the module-level dict: job_id -> job record
    tasks,                  \* per job_id: position of process_video_job
    status_code             \* status of the last HTTP response

layoutVars == <<subs, cfg_words_per_line, words_per_line, max_line_duration_ms,
                words, lines, karaoke_subs, gen_style, gen_pc>>

styleVars == <<style_args, style, got, style_pc>>

renderVars == <<caption_words, render_style, max_line_width_px, result_list,
                current_line_width, word_index, render_pc>>

filterVars == <<filter_args, video_filter, filter_pc>>

geoVars == <<frame, aspect_ratio, min_resolution, original_width,
             original_height, scale_result, scale_params, crop_filter,
             crop_path, geo_pc>>

uniqVars == <<rng, clock, workers, call, calls_left, results>>

jobVars == <<jobs, tasks, status_code>>

vars == <<layoutVars, styleVars, renderVars, filterVars, geoVars, uniqVars,
          jobVars>>

(***************************************************************************)
(* Python arithmetic helpers                                               *)
(***************************************************************************)
Min(a, b) == IF a <= b THEN a ELSE b
Max(a, b) == IF a >= b THEN a ELSE b
Abs(a) == IF a < 0 THEN -a ELSE a

\* int(q) of the exact quotient num/den (den > 0): truncation toward zero.
TruncDiv(num, den) == IF num >= 0 THEN num \div den ELSE -((-num) \div den)

(***************************************************************************)
(* Python strings, held as sequences of one-character strings              *)
(***************************************************************************)
Chars == {"a", " "}
IsSpace(c) == c = " "

\* str.split() with no separator: maximal runs of non-whitespace characters,
\* in order; leading, trailing and repeated whitespace yield no token.
RECURSIVE SplitFrom(_, _, _, _)
SplitFrom(text, i, cur, acc) ==
    IF i > Len(text)
    THEN IF cur = <<>> THEN acc ELSE Append(acc, cur)
    ELSE IF IsSpace(text[i])
         THEN SplitFrom(text, i + 1, <<>>,
                        IF cur = <<>> THEN acc ELSE Append(acc, cur))
         ELSE SplitFrom(text, i + 1, Append(cur, text[i]), acc)

Split(text) == SplitFrom(text, 1, <<>>, <<>>)

\* str.strip(): drop leading and trailing whitespace.
RECURSIVE LStrip(_)
LStrip(text) ==
    IF text # <<>> /\ IsSpace(Head(text)) THEN LStrip(Tail(text)) ELSE text

RECURSIVE RStrip(_)
RStrip(text) ==
    IF text # <<>> /\ IsSpace(text[Len(text)])
    THEN RStrip(SubSeq(text, 1, Len(text) - 1))
    ELSE text

Strip(text) == RStrip(LStrip(text))

(***************************************************************************)
(* KaraokeStyle and get_style (src/src/subsai/karaoke_styles.py)           *)
(***************************************************************************)
LowerLetters == <<"a", "b", "c", "d", "e", "f", "g", "h", "i", "j", "k", "l", "m",
                  "n", "o", "p", "q", "r", "s", "t", "u", "v", "w", "x", "y", "z">>
UpperLetters == <<"A", "B", "C", "D", "E", "F", "G", "H", "I", "J", "K", "L", "M",
                  "N", "O", "P", "Q", "R", "S", "T", "U", "V", "W", "X", "Y", "Z">>
Digits == <<"0", "1", "2", "3", "4", "5", "6", "7", "8", "9">>

\* str.lower()
LowerChar(c) ==
    IF \E i \in 1..26 : UpperLetters[i] = c
    THEN LowerLetters[CHOOSE i \in 1..26 : UpperLetters[i] = c]
    ELSE c
Lower(str) == [i \in 1..Len(str) |-> LowerChar(str[i])]

\* The value of one base-16 digit, upper or lower case.
IsHexDigit(c) ==
    \/ \E i \in 1..10 : Digits[i] = c
    \/ \E i \in 1..6 : LowerLetters[i] = c \/ UpperLetters[i] = c
HexDigitValue(c) ==
    IF \E i \in 1..10 : Digits[i] = c
    THEN (CHOOSE i \in 1..10 : Digits[i] = c) - 1
    ELSE (CHOOSE i \in 1..6 : LowerLetters[i] = c \/ UpperLetters[i] = c) + 9

\* str[a:b] for 0 <= a <= b
Slice(str, a, b) == SubSeq(str, a + 1, Min(b, Len(str)))

\* str.lstrip('#'): every leading '#' is dropped.
RECURSIVE LStripHash(_)
LStripHash(str) ==
    IF str # <<>> /\ Head(str) = "#" THEN LStripHash(Tail(str)) ELSE str

\* int(str, 16) of a string of at most two characters: surrounding whitespace
\* is ignored and one sign may precede the digits; anything else (the empty
\* string included) raises ValueError.
ParseInt16(str) ==
    LET t == Strip(str)
    IN  IF Len(t) = 1 /\ IsHexDigit(t[1])
        THEN [raised |-> FALSE, val |-> HexDigitValue(t[1])]
        ELSE IF Len(t) = 2 /\ IsHexDigit(t[1]) /\ IsHexDigit(t[2])
        THEN [raised |-> FALSE,
              val |-> 16 * HexDigitValue(t[1]) + HexDigitValue(t[2])]
        ELSE IF Len(t) = 2 /\ t[1] = "+" /\ IsHexDigit(t[2])
        THEN [raised |-> FALSE, val |-> HexDigitValue(t[2])]
        ELSE IF Len(t) = 2 /\ t[1] = "-" /\ IsHexDigit(t[2])
        THEN [raised |-> FALSE, val |-> -HexDigitValue(t[2])]
        ELSE [raised |-> TRUE, val |-> 0]

\* a | b on Python integers (two's complement of unbounded width).
RECURSIVE BitOr(_, _)
BitOr(a, b) ==
    IF a = 0 THEN b
    ELSE IF b = 0 THEN a
    ELSE IF a = -1 \/ b = -1 THEN -1
    ELSE 2 * BitOr(a \div 2, b \div 2) + Max(a % 2, b % 2)

\* a << k
ShiftLeft(a, k) == a * (2 ^ k)

\* (b << 16) | (g << 8) | r
PackBGR_AsRGB(r, g, b) == BitOr(BitOr(ShiftLeft(r, 16), ShiftLeft(g, 8)), b)

PackBGR(r, g, b) == BitOr(BitOr(ShiftLeft(b, 16), ShiftLeft(g, 8)), r)

\* KaraokeStyle._hex_to_ass_color: the value returned, or the ValueError of
\* one of the three int(..., 16) calls.
hex_to_ass_color(hex_color) ==
    LET h == LStripHash(hex_color)
        r == ParseInt16(Slice(h, 0, 2))
        g == ParseInt16(Slice(h, 2, 4))
        b == ParseInt16(Slice(h, 4, 6))
    IN  IF r.raised \/ g.raised \/ b.raised
        THEN [raised |-> TRUE, val |-> 0]
        ELSE [raised |-> FALSE, val |-> PackBGR(r.val, g.val, b.val)]

\* An optional argument: None, or a value.
None == [some |-> FALSE]
Some(v) == [some |-> TRUE, val |-> v]

\* The defaults of the five style classes.
DefaultFontname == "Microsoft YaHei"
StyleDefaults ==
    [ClassicStyle |-> [fontsize |-> 48, vertical_margin |-> 120,
                       primary_color |-> 16777215, secondary_color |-> 65535],
     ModernStyle  |-> [fontsize |-> 52, vertical_margin |-> 30,
                       primary_color |-> 16777215, secondary_color |-> 16747520],
     NeonStyle    |-> [fontsize |-> 50, vertical_margin |-> 80,
                       primary_color |-> 16777215, secondary_color |-> 16711935],
     ElegantStyle |-> [fontsize |-> 46, vertical_margin |-> 100,
                       primary_color |-> 16777215, secondary_color |-> 16766720],
     AnimeStyle   |-> [fontsize |-> 44, vertical_margin |-> 110,
                       primary_color |-> 16777215, secondary_color |-> 65535]]

\* STYLE_CLASSES
STYLE_CLASSES ==
    {<< <<"c", "l", "a", "s", "s", "i", "c">>, "ClassicStyle" >>,
     << <<"m", "o", "d", "e", "r", "n">>, "ModernStyle" >>,
     << <<"n", "e", "o", "n">>, "NeonStyle" >>,
     << <<"e", "l", "e", "g", "a", "n", "t">>, "ElegantStyle" >>,
     << <<"a", "n", "i", "m", "e">>, "AnimeStyle" >>}

\* STYLE_CLASSES.get(style_name.lower(), ClassicStyle)
LookupStyle_CaseSensitive(style_name) ==
    IF \E e \in STYLE_CLASSES : e[1] = style_name
    THEN (CHOOSE e \in STYLE_CLASSES : e[1] = style_name)[2]
    ELSE "ClassicStyle"

LookupStyle(style_name) ==
    IF \E e \in STYLE_CLASSES : e[1] = Lower(style_name)
    THEN (CHOOSE e \in STYLE_CLASSES : e[1] = Lower(style_name))[2]
    ELSE "ClassicStyle"

\* get_style: an instance of the class found, holding the overrides.
get_style(style_name, fontsize, vertical_margin, fontname, primary_color, secondary_color) ==
    [cls                    |-> LookupStyle(style_name),
     custom_fontsize        |-> fontsize,
     custom_vertical_margin |-> vertical_margin,
     custom_fontname        |-> fontname,
     custom_primary_color   |-> primary_color,
     custom_secondary_color |-> secondary_color]

\* The accessors; each returns [raised, val].
Returned(v) == [raised |-> FALSE, val |-> v]

get_fontsize(st) ==
    Returned(IF st.custom_fontsize.some THEN st.custom_fontsize.val
             ELSE StyleDefaults[st.cls].fontsize)

get_vertical_margin(st) ==
    Returned(IF st.custom_vertical_margin.some THEN st.custom_vertical_margin.val
             ELSE StyleDefaults[st.cls].vertical_margin)

\* `if self.custom_fontname`: None and the empty string are both false.
get_fontname(st) ==
    Returned(IF st.custom_fontname.some /\ st.custom_fontname.val # ""
             THEN st.custom_fontname.val
             ELSE DefaultFontname)

Truthy(opt) == opt.some /\ opt.val # <<>>

get_primary_color(st) ==
    IF Truthy(st.custom_primary_color)
    THEN hex_to_ass_color(st.custom_primary_color.val)
    ELSE Returned(StyleDefaults[st.cls].primary_color)

get_secondary_color(st) ==
    IF Truthy(st.custom_secondary_color)
    THEN hex_to_ass_color(st.custom_secondary_color.val)
    ELSE Returned(StyleDefaults[st.cls].secondary_color)

\* ---- inputs of the style specification ----
MaxColorLen == 7

Str_classic == <<"c", "l", "a", "s", "s", "i", "c">>
Str_neon == <<"n", "e", "o", "n">>
StyleNames ==
    {e[1] : e \in STYLE_CLASSES}
    \cup {<<"N", "E", "O", "N">>, <<"M", "o", "d", "e", "r", "n">>,
          <<"f", "o", "o", "b", "a", "r">>, <<>>}

\* Every string of '#' and 'F' up to MaxColorLen characters.
HashAndFStrings == UNION {[1..k -> {"#", "F"}] : k \in 0..MaxColorLen}

\* The colors of test_core_simple.py, then strings that are not #RRGGBB.
SampleColors ==
    {<<"#", "0", "0", "0", "0", "0", "0">>, <<"#", "F", "F", "0", "0", "0", "0">>,
     <<"#", "0", "0", "F", "F", "0", "0">>, <<"#", "0", "0", "0", "0", "F", "F">>,
     <<"#", "1", "2", "3", "4", "5", "6">>, <<"#", "F", "F", "D", "7", "0", "0">>,
     <<"f", "f", "d", "7", "0", "0">>,
     <<"#", "G", "G", "G", "G", "G", "G">>, <<"#", "1", "2", "3", "4", "5">>,
     <<"1", "2", "3", "4", "5", "6", "7">>, <<"#", "-", "F", "-", "F", "-", "F">>,
     <<"#", " ", "1", " ", "2", " ", "3">>, <<"#", "1", "2", " ", "3", "4", "5">>,
     <<"r", "e", "d">>}
FewColors == {None, Some(<<>>), Some(<<"#", "F", "F", "D", "7", "0", "0">>),
              Some(<<"#", "G", "G", "G", "G", "G", "G">>)}
AllColors == {Some(c) : c \in HashAndFStrings \cup SampleColors}

FontsizeInputs == {None, Some(0), Some(56)}
VerticalMarginInputs == {None, Some(0), Some(100)}
FontnameInputs == {None, Some(""), Some("Arial")}

StyleArgs(names, sizes, margins, fonts, primaries, secondaries) ==
    [style_name : names, fontsize : sizes, vertical_margin : margins,
     fontname : fonts, primary_color : primaries, secondary_color : secondaries]

StyleInputs ==
    StyleArgs(StyleNames, FontsizeInputs, VerticalMarginInputs, FontnameInputs,
              {None}, {None})
    \cup StyleArgs({Str_classic, Str_neon}, {None}, {None}, {None},
                   AllColors, FewColors)
    \cup StyleArgs({Str_classic, Str_neon}, {None}, {None}, {None},
                   FewColors, AllColors)

Unread == [read |-> FALSE]
Read(r) == [read |-> TRUE, raised |-> r.raised, val |-> r.val]
Accessors == {"fontname", "fontsize", "vertical_margin", "primary_color",
              "secondary_color"}

StyleInit ==
    /\ style_args \in StyleInputs
    /\ style = None
    /\ got = [a \in Accessors |-> Unread]
    /\ style_pc = "ready"

ResolveArgs(a) ==
    get_style(a.style_name, a.fontsize, a.vertical_margin, a.fontname,
              a.primary_color, a.secondary_color)

\* style = get_style(style_name, fontsize=..., ...)
GetStyle ==
    /\ style_pc = "ready"
    /\ style' = ResolveArgs(style_args)
    /\ style_pc' = "resolved"
    /\ UNCHANGED <<style_args, got, layoutVars, renderVars, filterVars, geoVars,
                   uniqVars, jobVars>>

CallAccessor(a, result) ==
    /\ style_pc = "resolved"
    /\ ~got[a].read
    /\ got' = [got EXCEPT ![a] = Read(result)]
    /\ UNCHANGED <<style_args, style, style_pc, layoutVars, renderVars,
                   filterVars, geoVars, uniqVars, jobVars>>

GetFontname == CallAccessor("fontname", get_fontname(style))
GetFontsize == CallAccessor("fontsize", get_fontsize(style))
GetVerticalMargin == CallAccessor("vertical_margin", get_vertical_margin(style))
GetPrimaryColor == CallAccessor("primary_color", get_primary_color(style))
GetSecondaryColor == CallAccessor("secondary_color", get_secondary_color(style))

StyleNext ==
    \/ GetStyle
    \/ GetFontname
    \/ GetFontsize
    \/ GetVerticalMargin
    \/ GetPrimaryColor
    \/ GetSecondaryColor

(***************************************************************************)
(* KaraokeGenerator                                                        *)
(***************************************************************************)
\* self.words_per_line = max(1, min(20, words_per_line))
MaxWordsPerLine == 20
ClampWordsPerLine(n) == Max(1, Min(MaxWordsPerLine, n))

\* Operand triples <<i, total_duration, n>> among the inputs below for which
\* the double product i * (total_duration / n) lies just under the exact
\* integer i * total_duration / n, so that int() returns one less (observed
\* by running the source on those inputs).
WordFloatSlips == {<<7, 61, 7>>}

\* int(i * word_duration) with word_duration = total_duration / n: Python's
\* int() truncates toward zero.
WordOffset_NoIndex(i, total_duration, n) == TruncDiv(total_duration, n)

WordOffset(i, total_duration, n) ==
    TruncDiv(i * total_duration, n)
        - (IF <<i, total_duration, n>> \in WordFloatSlips THEN 1 ELSE 0)

\* The words of one event: even division of the event's duration.
EventWords(event) ==
    LET text          == Strip(event.text)
        word_list     == Split(text)
        n             == Len(word_list)
        total_duration == event.end - event.start
    IN  IF text = <<>> \/ n = 0
        THEN <<>>
        ELSE [i \in 1..n |->
                [word  |-> word_list[i],
                 start |-> event.start + WordOffset(i - 1, total_duration, n),
                 end   |-> event.start + WordOffset(i, total_duration, n)]]

RECURSIVE ExtractWordTimings(_)
ExtractWordTimings(events) ==
    IF events = <<>> THEN <<>>
    ELSE EventWords(Head(events)) \o ExtractWordTimings(Tail(events))

\* should_break of _group_words_by_lines, before `and current_line`.
ShouldBreak_NoCount(current_line, current_line_start, word, wpl, maxdur) ==
    current_line # <<>> /\ (word.end - current_line_start) > maxdur

ShouldBreak_NoDuration(current_line, current_line_start, word, wpl, maxdur) ==
    Len(current_line) >= wpl

ShouldBreak(current_line, current_line_start, word, wpl, maxdur) ==
    \/ Len(current_line) >= wpl
    \/ current_line # <<>> /\ (word.end - current_line_start) > maxdur

\* The break branch: close the current line and start a new one with word.
BreakLine_DropWord(st, word) ==
    [lines              |-> Append(st.lines, st.current_line),
     current_line       |-> <<>>,
     current_line_start |-> word.start]

BreakLine(st, word) ==
    [lines              |-> Append(st.lines, st.current_line),
     current_line       |-> <<word>>,
     current_line_start |-> word.start]

GroupStep(st, word, wpl, maxdur) ==
    IF /\ ShouldBreak(st.current_line, st.current_line_start, word, wpl, maxdur)
       /\ st.current_line # <<>>
    THEN BreakLine(st, word)
    ELSE [st EXCEPT !.current_line = Append(@, word)]

RECURSIVE GroupLoop(_, _, _, _)
GroupLoop(ws, st, wpl, maxdur) ==
    IF ws = <<>> THEN st
    ELSE GroupLoop(Tail(ws), GroupStep(st, Head(ws), wpl, maxdur), wpl, maxdur)

GroupWordsByLines(ws, wpl, maxdur) ==
    IF ws = <<>> THEN <<>>
    ELSE LET st == GroupLoop(ws,
                             [lines |-> <<>>, current_line |-> <<>>,
                              current_line_start |-> ws[1].start],
                             wpl, maxdur)
         IN  IF st.current_line # <<>>
             THEN Append(st.lines, st.current_line)
             ELSE st.lines

\* The event loop of generate: one event per non-empty line.
RECURSIVE LineEvents(_)
LineEvents(ls) ==
    IF ls = <<>> THEN <<>>
    ELSE LET line_words == Head(ls)
         IN  IF line_words = <<>>
             THEN LineEvents(Tail(ls))
             ELSE <<[start |-> line_words[1].start,
                     end   |-> line_words[Len(line_words)].end,
                     words |-> line_words]>> \o LineEvents(Tail(ls))

\* ---- inputs of the layout specification ----
MaxTextLen == 2
MaxEvents == 2
MaxTime == 2
MaxLineDur == 2

TextsUpTo(n) == UNION {[1..k -> Chars] : k \in 0..n}

\* Events whose text ranges over every string, on a fixed time slot.
TextRichEvents ==
    {[start |-> 0, end |-> MaxTime, text |-> t] : t \in TextsUpTo(MaxTextLen)}

\* Events of two words (with leading, repeated and trailing whitespace) whose
\* times range over every pair, and events of one word that start at 0 and
\* end at every time; zero and negative durations included.
TimedTexts == {<<"a">>, <<" ", "b", " ", " ", "a", "b", " ">>}
TimeRichEvents ==
    {[start |-> s, end |-> e, text |-> t] :
        s \in 0..MaxTime, e \in 0..MaxTime, t \in TimedTexts \ {<<"a">>}}
    \cup {[start |-> 0, end |-> e, text |-> <<"a">>] : e \in 0..MaxTime}

SeqsUpTo(S, n) == UNION {[1..k -> S] : k \in 0..n}

WordsPerLineInputs == {-1, 0, 1, 2, 25}

\* "Hello world this is a test" over three seconds, and seven words over 61 ms
\* (the last word's end meets a float slip).
HelloWorldEvent ==
    [start |-> 0, end |-> 3000,
     text |-> <<"H", "e", "l", "l", "o", " ", "w", "o", "r", "l", "d", " ",
                "t", "h", "i", "s", " ", "i", "s", " ", "a", " ",
                "t", "e", "s", "t">>]
SevenWordsEvent ==
    [start |-> 0, end |-> 61,
     text |-> <<"a", " ", "b", " ", "c", " ", "d", " ", "e", " ", "f", " ", "g">>]
ScenarioTranscripts == {<<HelloWorldEvent>>, <<SevenWordsEvent>>}

\* Events whose text is empty or whitespace only.
BlankEvents ==
    {[start |-> 0, end |-> MaxTime, text |-> [i \in 1..k |-> " "]] :
        k \in {0, MaxTextLen}}

\* Constructor arguments that reach get_style.
DefaultStyleArgs ==
    StyleArgs({Str_classic}, {None}, {None}, {None}, {None}, {None})
ScenarioStyleArgs ==
    StyleArgs({Str_classic}, {None}, {None}, {None}, FewColors, {None})
BlankStyleArgs ==
    StyleArgs(StyleNames, FontsizeInputs, {None}, FontnameInputs, FewColors,
              FewColors)

LayoutInputs ==
    ({SeqsUpTo(TextRichEvents, MaxEvents)} \X {WordsPerLineInputs}
        \X {{MaxLineDur}} \X {DefaultStyleArgs})
    \cup ({SeqsUpTo(TimeRichEvents, MaxEvents)} \X {{2, 25}}
        \X {0..MaxLineDur} \X {DefaultStyleArgs})
    \cup ({ScenarioTranscripts} \X {{5}} \X {{5000}} \X {ScenarioStyleArgs})
    \cup ({SeqsUpTo(BlankEvents, MaxEvents)} \X {{10}} \X {{5000}}
        \X {BlankStyleArgs})

LayoutInit ==
    /\ \E inp \in LayoutInputs :
         /\ subs \in inp[1]
         /\ cfg_words_per_line \in inp[2]
         /\ max_line_duration_ms \in inp[3]
         /\ \E a \in inp[4] : gen_style = ResolveArgs(a)
    /\ words_per_line = ClampWordsPerLine(cfg_words_per_line)
    /\ words = <<>>
    /\ lines = <<>>
    /\ karaoke_subs = <<>>
    /\ gen_pc = "ready"

\* self.style.get_ssa_style() raises when a color accessor raises.
SsaStyleRaises(st) ==
    get_primary_color(st).raised \/ get_secondary_color(st).raised

\* How generate ends: `if not words: return SSAFile()` comes before the
\* style is read.
GenerateOutcome_StyleFirst(ws, st) ==
    IF SsaStyleRaises(st) THEN "raised"
    ELSE IF ws = <<>> THEN "empty"
    ELSE "done"

GenerateOutcome(ws, st) ==
    IF ws = <<>> THEN "empty"
    ELSE IF SsaStyleRaises(st) THEN "raised"
    ELSE "done"

\* KaraokeGenerator.generate(subs)
Generate ==
    /\ gen_pc = "ready"
    /\ LET ws == ExtractWordTimings(subs)
           ls == GroupWordsByLines(ws, words_per_line, max_line_duration_ms)
       IN  /\ words' = ws
           /\ lines' = IF ws = <<>> THEN <<>> ELSE ls
           /\ LET outcome == GenerateOutcome(ws, gen_style)
              IN  /\ karaoke_subs' = IF outcome = "done" THEN LineEvents(ls)
                                     ELSE <<>>
                  /\ gen_pc' = IF outcome = "raised" THEN "raised" ELSE "done"
    /\ UNCHANGED <<subs, cfg_words_per_line, words_per_line, max_line_duration_ms>>
    /\ UNCHANGED <<gen_style, styleVars, renderVars, filterVars, geoVars, uniqVars,
                   jobVars>>

(***************************************************************************)
(* KaraokeGenerator._create_karaoke_tags: the markup of one caption line   *)
(***************************************************************************)
\* Characters of '\u4e00'..'\u9fff' that occur in the inputs below, each
\* written as its code point.
WideChars == {"U+4E2D"}

\* _estimate_text_width, per character and per unit of fontsize, in tenths:
\* fontsize * 1.0, fontsize * 0.3, fontsize * 0.6
GlyphTenths(char) ==
    IF char \in WideChars THEN 10 ELSE IF char = " " THEN 3 ELSE 6

\* _estimate_text_width(text), in tenths of a pixel
RECURSIVE estimate_text_width(_, _)
estimate_text_width(text, fontsize) ==
    IF text = <<>> THEN 0
    ELSE fontsize * GlyphTenths(Head(text))
         + estimate_text_width(Tail(text), fontsize)

\* duration_cs = max(1, duration_ms // 10), with Python's floor division
DurationCs(word) ==
    LET duration_ms == word.end - word.start
    IN  Max(1, IF duration_ms >= 0 THEN duration_ms \div 10
               ELSE -((9 - duration_ms) \div 10))

\* str(n) for n >= 0
RECURSIVE ToDecimal(_)
ToDecimal(n) ==
    IF n < 10 THEN <<Digits[n + 1]>>
    ELSE ToDecimal(n \div 10) \o <<Digits[(n % 10) + 1]>>

\* KaraokeStyle.get_karaoke_tags: f"{{\\kf{duration_cs}}}"
get_karaoke_tags(duration_cs) ==
    <<"{", "\\", "k", "f">> \o ToDecimal(duration_cs) \o <<"}">>

\* The strings appended to result.
AlignPiece == [kind |-> "align", text |-> <<"{", "\\", "a", "n", "2", "}">>]
BreakPiece == [kind |-> "break", text |-> <<"\\", "N">>]
SpacePiece == [kind |-> "space", text |-> <<" ">>]
\* f"{karaoke_tag}{word['word']}"
WordPiece(word) ==
    [kind |-> "word", text |-> get_karaoke_tags(DurationCs(word)) \o word.word]

\* "".join(result)
RECURSIVE Join(_)
Join(pieces) ==
    IF pieces = <<>> THEN <<>> ELSE Head(pieces).text \o Join(Tail(pieces))

\* if self.max_line_width_px and self.max_line_width_px > 0
WrapMode(px) == px.some /\ px.val # 0 /\ px.val > 0

\* The loop of _create_karaoke_tags without wrapping: tag and word, then a
\* space unless the word is the last.
RECURSIVE NoWrapPieces_TrailingSpace(_)
NoWrapPieces_TrailingSpace(ws) ==
    IF ws = <<>> THEN <<>>
    ELSE <<WordPiece(Head(ws)), SpacePiece>>
         \o NoWrapPieces_TrailingSpace(Tail(ws))

RECURSIVE NoWrapPieces(_)
NoWrapPieces(ws) ==
    IF ws = <<>> THEN <<>>
    ELSE <<WordPiece(Head(ws))>>
         \o (IF Len(ws) > 1 THEN <<SpacePiece>> ELSE <<>>)
         \o NoWrapPieces(Tail(ws))

\* <<fontsize, current_line_width, space_width, word_width, max_line_width_px>>
\* among the inputs below for which the widths add up to exactly 0.8 of the
\* wrap width while the double sum comes out above the double product
\* (observed by running the source on those inputs); widths in tenths.
WrapFloatSlips ==
    {<<7, 189, 21, 70, 35>>, <<7, 189, 21, 126, 42>>, <<7, 217, 21, 42, 35>>,
     <<7, 273, 21, 42, 42>>}

\* current_line_width + space_width + word_width > max_width, where
\* max_width = self.max_line_width_px * 0.8
TooWide(fontsize, width, space_width, word_width, px) ==
    \/ width + space_width + word_width > 8 * px
    \/ <<fontsize, width, space_width, word_width, px>> \in WrapFloatSlips

\* ---- inputs of the markup specification ----
MaxLineWords == 3

WordsOf(texts, times) ==
    {[word |-> t, start |-> tm[1], end |-> tm[2]] : t \in texts, tm \in times}

\* Words of different widths, words of different durations (zero and negative
\* included), and words whose text is empty, a space, or holds a line-break
\* marker or an override block.
WidthWords ==
    WordsOf({<<"a">>, <<"a", "b", "c">>, <<"U+4E2D">>}, {<<0, 100>>})
TimedWords ==
    WordsOf({<<"a">>},
            {<<0, 0>>, <<0, 9>>, <<0, 10>>, <<0, 19>>, <<0, 2505>>, <<10, 0>>})
MarkerWords ==
    WordsOf({<<>>, <<" ">>, <<"a">>, <<"a", "\\", "N", "b">>,
             <<"{", "\\", "a", "n", "5", "}">>}, {<<0, 100>>})

FiveStyleNames == {Lower(nm[1]) : nm \in STYLE_CLASSES}
RenderInputs ==
    {<<WidthWords,
       StyleArgs(FiveStyleNames, {None, Some(0), Some(7)}, {None}, {None},
                 {None}, {None}),
       {None, Some(0), Some(35), Some(42), Some(1920)}>>,
     <<TimedWords, DefaultStyleArgs, {None, Some(-1), Some(1920)}>>,
     <<MarkerWords,
       StyleArgs({Str_classic}, {None, Some(7)}, {None}, {None}, {None}, {None}),
       {None, Some(30), Some(1920)}>>}

RenderInit ==
    /\ \E inp \in RenderInputs :
         /\ caption_words \in SeqsUpTo(inp[1], MaxLineWords)
         /\ \E a \in inp[2] : render_style = ResolveArgs(a)
         /\ max_line_width_px \in inp[3]
    /\ result_list = <<>>
    /\ current_line_width = 0
    /\ word_index = 0
    /\ render_pc = "ready"

\* _create_karaoke_tags up to the loop of _create_karaoke_tags_with_wrap:
\* nothing for no words, the whole markup without wrapping, and the
\* alignment tag with wrapping.
CreateKaraokeTags ==
    /\ render_pc = "ready"
    /\ IF caption_words = <<>>
       THEN result_list' = <<>> /\ render_pc' = "done"
       ELSE IF WrapMode(max_line_width_px)
       THEN result_list' = <<AlignPiece>> /\ render_pc' = "wrap"
       ELSE result_list' = NoWrapPieces(caption_words) /\ render_pc' = "done"
    /\ word_index' = 0
    /\ current_line_width' = 0
    /\ UNCHANGED <<caption_words, render_style, max_line_width_px>>
    /\ UNCHANGED <<layoutVars, styleVars, filterVars, geoVars, uniqVars,
                   jobVars>>

\* One iteration of `for i, word in enumerate(words)` with wrapping.
WrapWord ==
    /\ render_pc = "wrap"
    /\ word_index < Len(caption_words)
    /\ LET i           == word_index
           word        == caption_words[i + 1]
           fontsize    == get_fontsize(render_style).val
           word_width  == estimate_text_width(word.word, fontsize)
           space_width == IF i > 0 THEN estimate_text_width(<<" ">>, fontsize)
                          ELSE 0
           break       == i > 0 /\ TooWide(fontsize, current_line_width,
                                           space_width, word_width,
                                           max_line_width_px.val)
           width1      == IF break THEN 0 ELSE current_line_width
           space       == i > 0 /\ width1 > 0
           width2      == IF space THEN width1 + space_width ELSE width1
       IN  /\ result_list' = result_list
                        \o (IF break THEN <<BreakPiece>> ELSE <<>>)
                        \o (IF space THEN <<SpacePiece>> ELSE <<>>)
                        \o <<WordPiece(word)>>
           /\ current_line_width' = width2 + word_width
    /\ word_index' = word_index + 1
    /\ UNCHANGED <<caption_words, render_style, max_line_width_px, render_pc>>
    /\ UNCHANGED <<layoutVars, styleVars, filterVars, geoVars, uniqVars,
                   jobVars>>

\* return "".join(result)
WrapReturn ==
    /\ render_pc = "wrap"
    /\ word_index = Len(caption_words)
    /\ render_pc' = "done"
    /\ UNCHANGED <<caption_words, render_style, max_line_width_px, result_list,
                   current_line_width, word_index>>
    /\ UNCHANGED <<layoutVars, styleVars, filterVars, geoVars, uniqVars,
                   jobVars>>

RenderNext == CreateKaraokeTags \/ WrapWord \/ WrapReturn

(***************************************************************************)
(* Frame geometry: get_resolution_scale_params and the crop calculation    *)
(***************************************************************************)
\* Operand triples <<x, m, s>> among the inputs below for which the double
\* product x * (m / s) lies just under the exact integer x*m/s, so that int()
\* returns one less (observed by running the source on those inputs).
FloatSlips == {<<1070, 1080, 1070>>, <<39, 720, 39>>, <<78, 720, 39>>}

\* int(x * (m / s)) for s > 0.
IntMulRatio(x, m, s) ==
    TruncDiv(x * m, s) - (IF <<x, m, s>> \in FloatSlips THEN 1 ELSE 0)

\* int(x / (m / s)) for m > 0; exact for the inputs below.
IntDivRatio(x, m, s) == TruncDiv(x * s, m)

\* n - (n % 2)
EvenFloor_Identity(n) == n

EvenFloor(n) == n - (n % 2)

NoScale(w, h) == [need_scale |-> FALSE, target_width |-> w, target_height |-> h]

get_resolution_scale_params(width, height, min_res) ==
    LET min_side == Min(width, height)
    IN  IF min_side >= min_res
        THEN NoScale(width, height)
        ELSE [need_scale    |-> TRUE,
              target_width  |-> EvenFloor(IntMulRatio(width, min_res, min_side)),
              target_height |-> EvenFloor(IntMulRatio(height, min_res, min_side))]

\* rotation in [90, -90, 270, -270]: swap width and height
Rotated(rotation) == rotation \in {90, -90, 270, -270}
NormalizedWidth(f) == IF Rotated(f.rotation) THEN f.height ELSE f.width
NormalizedHeight(f) == IF Rotated(f.rotation) THEN f.width ELSE f.height

\* aspect_ratio values: None, the word "original" (any case), or a string,
\* held as the fields aspect_ratio.split(':') yields; a field is an integer
\* literal or not.
NoAspect == [kind |-> "none", fields |-> <<>>]
OriginalAspect == [kind |-> "original", fields |-> <<>>]
AspectString(fs) == [kind |-> "string", fields |-> fs]
IntField(n) == [num |-> TRUE, val |-> n]
BadField == [num |-> FALSE, val |-> 0]

NoCrop == [present |-> FALSE, width |-> 0, height |-> 0, x |-> 0, y |-> 0]

\* target_w, target_h = map(int, aspect_ratio.split(':')) raises ValueError;
\* target_w / target_h and the division by target_ratio raise
\* ZeroDivisionError.
ParseFails(fs) ==
    \/ Len(fs) # 2
    \/ \E i \in 1..Len(fs) : ~fs[i].num
    \/ fs[2].val = 0
    \/ fs[1].val = 0

\* crop_x = (base_width - target_crop_width) // 2, and likewise crop_y
CenterOffset_Swapped(base, target) == (target - base) \div 2

CenterOffset(base, target) == (base - target) \div 2

\* <<base_width, base_height, target_w, target_h>> whose ratios differ by
\* exactly 1% while the float ratio_diff comes out below 0.01.
ToleranceSlips == {<<1760, 1000, 16, 9>>}

\* Step 1, "ideal target size": anchored on the width when the base is wider
\* than the target (base_ratio > target_ratio), on the height otherwise, then
\* made even.
IdealWidth(tn, td, wider, min_res) ==
    EvenFloor(IF wider THEN min_res ELSE IntMulRatio(min_res, tn, td))
IdealHeight(tn, td, wider, min_res) ==
    EvenFloor(IF wider THEN IntDivRatio(min_res, tn, td) ELSE min_res)

\* Step 2: base_width >= ideal_width and base_height >= ideal_height and
\* min_side >= min_resolution
Fits_SizeIgnored(base_width, base_height, ideal_width, ideal_height, min_res) ==
    Min(base_width, base_height) >= min_res

Fits(base_width, base_height, ideal_width, ideal_height, min_res) ==
    /\ base_width >= ideal_width
    /\ base_height >= ideal_height
    /\ Min(base_width, base_height) >= min_res

\* The body of the try block, for a string that parsed: tn / td is
\* target_ratio with td > 0.
CropCalculation(tn, td, sp, ow, oh, min_res) ==
    LET base_width  == IF sp.need_scale THEN sp.target_width ELSE ow
        base_height == IF sp.need_scale THEN sp.target_height ELSE oh
        cross       == base_width * td - tn * base_height
        \* ratio_diff = abs(base_ratio - target_ratio) / target_ratio < 0.01
        matches     == \/ tn < 0
                       \/ 100 * Abs(cross) < tn * base_height
                       \/ <<base_width, base_height, tn, td>> \in ToleranceSlips
        wider       == cross > 0      \* base_ratio > target_ratio
        ideal_width  == IdealWidth(tn, td, wider, min_res)
        ideal_height == IdealHeight(tn, td, wider, min_res)
        fits        == Fits(base_width, base_height, ideal_width, ideal_height,
                            min_res)
        exceeds     == ideal_width > base_width \/ ideal_height > base_height
        \* additional_scale = max(scale_x, scale_y), as a fraction an / ad
        x_larger    == ideal_width * base_height >= ideal_height * base_width
        an          == IF x_larger THEN ideal_width ELSE ideal_height
        ad          == IF x_larger THEN base_width ELSE base_height
        new_width   == EvenFloor(IntMulRatio(base_width, an, ad))
        new_height  == EvenFloor(IntMulRatio(base_height, an, ad))
        crop_base_w == IF exceeds THEN new_width ELSE base_width
        crop_base_h == IF exceeds THEN new_height ELSE base_height
    IN  IF matches
        THEN [scale_params |-> sp, crop_filter |-> NoCrop, path |-> "match"]
        ELSE IF fits
        THEN IF ideal_width # base_width \/ ideal_height # base_height
             THEN [scale_params |->
                      IF exceeds
                      THEN [need_scale |-> TRUE, target_width |-> new_width,
                            target_height |-> new_height]
                      ELSE sp,
                   crop_filter |->
                      [present |-> TRUE,
                       width   |-> ideal_width,
                       height  |-> ideal_height,
                       x       |-> CenterOffset(crop_base_w, ideal_width),
                       y       |-> CenterOffset(crop_base_h, ideal_height)],
                   path |-> IF exceeds THEN "crop_upscaled" ELSE "crop"]
             ELSE [scale_params |-> sp, crop_filter |-> NoCrop, path |-> "exact"]
        ELSE [scale_params |-> [need_scale |-> TRUE,
                                target_width |-> ideal_width,
                                target_height |-> ideal_height],
              crop_filter |-> NoCrop, path |-> "rescale"]

\* if aspect_ratio and aspect_ratio.lower() != 'original': try ... except
ComputeCrop(aspect, sp, ow, oh, min_res) ==
    IF aspect.kind # "string"
    THEN [scale_params |-> sp, crop_filter |-> NoCrop, path |-> "skipped"]
    ELSE IF ParseFails(aspect.fields)
    THEN [scale_params |-> sp, crop_filter |-> NoCrop, path |-> "invalid"]
    ELSE LET tw == aspect.fields[1].val
             th == aspect.fields[2].val
         IN  IF th < 0
             THEN CropCalculation(-tw, -th, sp, ow, oh, min_res)
             ELSE CropCalculation(tw, th, sp, ow, oh, min_res)

\* ---- inputs of the geometry specification ----
MaxDim == 8
MaxMinRes == 6
MaxRatioTerm == 4

Rotations == {0, 90, 180, -90}
RatioFields == {IntField(n) : n \in -1..MaxRatioTerm} \cup {BadField}
SmallAspects ==
    {NoAspect, OriginalAspect,
     AspectString(<<IntField(1)>>),
     AspectString(<<IntField(1), IntField(2), IntField(3)>>)}
    \cup {AspectString(<<a, b>>) : a \in RatioFields, b \in RatioFields}

\* Frames and ratios met in practice; 1902x1070, 39x39 and 78x39 have a short
\* side whose upscale hits a float slip, and 1760x1000 is 1% off 16:9.
PracticalFrames ==
    {<<1920, 1080, 1080>>, <<3840, 2160, 1080>>, <<1280, 720, 1080>>,
     <<1080, 1920, 1080>>, <<1902, 1070, 1080>>, <<39, 39, 720>>,
     <<78, 39, 720>>, <<1760, 1000, 1000>>}
PracticalAspects ==
    {NoAspect} \cup
    {AspectString(<<IntField(r[1]), IntField(r[2])>>) :
        r \in {<<16, 9>>, <<9, 16>>, <<4, 3>>, <<3, 4>>, <<1, 1>>}}

GeometryInit ==
    /\ \/ /\ frame \in [width : 1..MaxDim, height : 1..MaxDim,
                        rotation : Rotations]
          /\ min_resolution \in 1..MaxMinRes
          /\ aspect_ratio \in SmallAspects
       \/ /\ \E f \in PracticalFrames :
                /\ frame = [width |-> f[1], height |-> f[2], rotation |-> 0]
                /\ min_resolution = f[3]
          /\ aspect_ratio \in PracticalAspects
    /\ original_width = 0
    /\ original_height = 0
    /\ scale_result = NoScale(0, 0)
    /\ scale_params = NoScale(0, 0)
    /\ crop_filter = NoCrop
    /\ crop_path = "none"
    /\ geo_pc = "ready"

\* The geometry part of Tools.burn_karaoke_subtitles.
BurnGeometry ==
    /\ geo_pc = "ready"
    /\ LET ow == NormalizedWidth(frame)
           oh == NormalizedHeight(frame)
           sp == get_resolution_scale_params(ow, oh, min_resolution)
           cr == ComputeCrop(aspect_ratio, sp, ow, oh, min_resolution)
       IN  /\ original_width' = ow
           /\ original_height' = oh
           /\ scale_result' = sp
           /\ scale_params' = cr.scale_params
           /\ crop_filter' = cr.crop_filter
           /\ crop_path' = cr.path
    /\ geo_pc' = "done"
    /\ UNCHANGED <<frame, aspect_ratio, min_resolution>>
    /\ UNCHANGED <<layoutVars, styleVars, renderVars, filterVars, uniqVars,
                   jobVars>>

(***************************************************************************)
(* calculate_uniqueness_params and generate_random_metadata                *)
(***************************************************************************)
\* The module-level generator is modelled as a linear congruential generator
\* over RngModulus states: seeding fixes the state, every draw returns the
\* state and advances it.
RngModulus == 8
RngStates == 0..(RngModulus - 1)
NextRng(s) == (5 * s + 3) % RngModulus

\* int(hashlib.md5(f"{input_file}_{timestamp}_{index}").hexdigest()[:8], 16):
\* a fixed function of the three inputs.
SeedOf(input_file, instant, index) == 7 * input_file + 3 * instant + 5 * index + 1

\* random.seed(n): the state is a function of n alone.
SeededState_Ignored(old, n) == old

SeededState(old, n) == n % RngModulus

\* random.uniform(lo, hi), in the integer unit of lo and hi
Uniform(lo, hi, r) == lo + ((hi - lo) * r) \div (RngModulus - 1)
\* random.randint(lo, hi)
RandInt_PastHigh(lo, hi, r) == lo + (r % (hi - lo + 2))

RandInt(lo, hi, r) == lo + (r % (hi - lo + 1))
\* random.choice(seq)
Choice(seq, r) == seq[1 + (r % Len(seq))]

\* Number of draws of the params dict before 'metadata', and in total.
ParamDraws == 11
TotalDraws == 14

\* The dict calculate_uniqueness_params returns, from its 14 draws d and the
\* instant generate_random_metadata read.  noise_strength is in 1e-4,
\* saturation, brightness and contrast in 1e-3.
ProfileOf(d, meta_instant) ==
    [noise_strength    |-> Uniform(8, 25, d[1]),
     saturation        |-> Uniform(980, 1020, d[2]),
     brightness        |-> Uniform(985, 1015, d[3]),
     contrast          |-> Uniform(990, 1010, d[4]),
     crf               |-> RandInt(15, 19, d[5]),
     preset            |-> Choice(<<"slow", "slower", "veryslow">>, d[6]),
     x264_params       |-> [me    |-> Choice(<<"umh", "hex">>, d[7]),
                            subme |-> Choice(<<7, 8, 9>>, d[8]),
                            ref   |-> Choice(<<3, 4, 5>>, d[9])],
     audio_bitrate     |-> Choice(<<"192k", "224k", "256k">>, d[10]),
     audio_sample_rate |-> Choice(<<44100, 48000>>, d[11]),
     metadata          |-> [creation_time |->
                               [now       |-> meta_instant,
                                days_ago  |-> RandInt(1, 30, d[12]),
                                hours_ago |-> RandInt(0, 23, d[13])],
                            encoder |-> Choice(<<"Lavf60.3.100", "Lavf59.27.100",
                                                 "Lavf58.76.100", "Lavf60.16.100",
                                                 "Lavf59.16.100">>, d[14]),
                            title   |-> "",
                            comment |-> ""]]

\* The draws of a call that nothing interleaves with.
RECURSIVE DrawsFrom(_, _)
DrawsFrom(s, n) == IF n = 0 THEN <<>> ELSE <<s>> \o DrawsFrom(NextRng(s), n - 1)

RECURSIVE AdvanceRng(_, _)
AdvanceRng(s, n) == IF n = 0 THEN s ELSE AdvanceRng(NextRng(s), n - 1)

\* ---- inputs of the uniqueness specifications ----
MaxFiles == 2
MaxIndex == 0
MaxClock == 1
MaxCalls == 3

Idle == [pc |-> "idle", input_file |-> 0, index |-> 0, instant |-> 0,
         draws |-> <<>>, meta_instant |-> 0]

UniqInit(ws, n) ==
    /\ rng \in RngStates
    /\ clock = 0
    /\ workers = ws
    /\ call = [t \in ws |-> Idle]
    /\ calls_left = n
    /\ results = <<>>

\* seed_str, seed_hash and random.seed(int(seed_hash[:8], 16))
SeedStep(t, input_file, index) ==
    /\ call[t].pc = "idle"
    /\ calls_left > 0
    /\ calls_left' = calls_left - 1
    /\ rng' = SeededState(rng, SeedOf(input_file, clock, index))
    /\ call' = [call EXCEPT ![t] =
                   [pc |-> "sample", input_file |-> input_file,
                    index |-> index, instant |-> clock, draws |-> <<>>,
                    meta_instant |-> 0]]
    /\ UNCHANGED <<clock, workers, results, layoutVars, styleVars,
                 renderVars, filterVars, geoVars, jobVars>>

\* The draws of the params dict up to 'metadata' (lines 56-80), taken as
\* one step of the calling thread.
SampleParams(t) ==
    /\ call[t].pc = "sample"
    /\ call' = [call EXCEPT ![t].draws = DrawsFrom(rng, ParamDraws),
                            ![t].pc = "metadata"]
    /\ rng' = AdvanceRng(rng, ParamDraws)
    /\ UNCHANGED <<clock, workers, calls_left, results, layoutVars, styleVars,
                 renderVars, filterVars, geoVars, jobVars>>

\* generate_random_metadata(): three more draws and datetime.now().
RandomMetadata(t) ==
    /\ call[t].pc = "metadata"
    /\ call' = [call EXCEPT
                  ![t].draws = @ \o DrawsFrom(rng, TotalDraws - ParamDraws),
                  ![t].meta_instant = clock,
                  ![t].pc = "reseed"]
    /\ rng' = AdvanceRng(rng, TotalDraws - ParamDraws)
    /\ UNCHANGED <<clock, workers, calls_left, results, layoutVars, styleVars,
                 renderVars, filterVars, geoVars, jobVars>>

\* random.seed() and return params: the generator is reseeded from the
\* operating system's entropy.
ReseedStep(t) ==
    /\ call[t].pc = "reseed"
    /\ rng' \in RngStates
    /\ results' = Append(results,
          [input_file |-> call[t].input_file, index |-> call[t].index,
           instant |-> call[t].instant, meta_instant |-> call[t].meta_instant,
           params |-> ProfileOf(call[t].draws, call[t].meta_instant)])
    /\ call' = [call EXCEPT ![t] = Idle]
    /\ UNCHANGED <<clock, workers, calls_left, layoutVars, styleVars,
                 renderVars, filterVars, geoVars, jobVars>>

\* Time passes.
Tick ==
    /\ clock < MaxClock
    /\ clock' = clock + 1
    /\ UNCHANGED <<rng, workers, call, calls_left, results, layoutVars, styleVars,
                 renderVars, filterVars, geoVars, jobVars>>

UniqNext ==
    \/ \E t \in workers, f \in 1..MaxFiles, i \in 0..MaxIndex : SeedStep(t, f, i)
    \/ \E t \in workers : SampleParams(t)
    \/ \E t \in workers : RandomMetadata(t)
    \/ \E t \in workers : ReseedStep(t)
    \/ Tick

(***************************************************************************)
(* The video filter chain: build_uniqueness_filters and the basic chain     *)
(***************************************************************************)
ScaleStage(sp) ==
    [stage |-> "scale", width |-> sp.target_width, height |-> sp.target_height]
CropStage(cf) ==
    [stage |-> "crop", width |-> cf.width, height |-> cf.height,
     x |-> cf.x, y |-> cf.y]
\* eq=saturation={sat}:brightness={(bright-1)*0.1}:contrast={cont}, with
\* saturation and contrast in 1e-3 and the brightness term in 1e-4
EqStage(up) ==
    [stage |-> "eq", saturation |-> up.saturation,
     brightness |-> up.brightness - 1000, contrast |-> up.contrast]
\* noise=alls={int(noise*100)}:allf=t, with noise_strength in 1e-4
NoiseStage_Scaled(up) == [stage |-> "noise", alls |-> up.noise_strength]

NoiseStage(up) == [stage |-> "noise", alls |-> TruncDiv(up.noise_strength, 100)]
AssStage(ass_file) == [stage |-> "ass", file |-> ass_file]

\* filters.append(x) under a condition
AppendIf(cond, filters, x) == IF cond THEN Append(filters, x) ELSE filters

\* build_uniqueness_filters(uniqueness_params, scale_params, crop_filter,
\* ass_file); scale_params and ass_file are optional, crop_filter is NoCrop
\* when there is none.
build_uniqueness_filters_AssFirst(up, sp, cf, ass_file) ==
    LET f0 == AppendIf(ass_file.some, <<>>, AssStage(ass_file.val))
        f1 == AppendIf(sp.some /\ sp.val.need_scale, f0, ScaleStage(sp.val))
        f2 == AppendIf(cf.present, f1, CropStage(cf))
        f3 == Append(f2, EqStage(up))
    IN  Append(f3, NoiseStage(up))

build_uniqueness_filters(up, sp, cf, ass_file) ==
    LET f1 == AppendIf(sp.some /\ sp.val.need_scale, <<>>, ScaleStage(sp.val))
        f2 == AppendIf(cf.present, f1, CropStage(cf))
        f3 == Append(f2, EqStage(up))
        f4 == Append(f3, NoiseStage(up))
    IN  AppendIf(ass_file.some, f4, AssStage(ass_file.val))

\* The else branch of burn_karaoke_subtitles: scale, crop, ass.
BasicFilters(sp, cf, ass_name) ==
    LET f1 == AppendIf(sp.need_scale, <<>>, ScaleStage(sp))
        f2 == AppendIf(cf.present, f1, CropStage(cf))
    IN  Append(f2, AssStage(ass_name))

\* "Build video filter chain" of burn_karaoke_subtitles.
BurnFilters(enable_uniqueness, up, sp, cf, ass_name) ==
    IF enable_uniqueness
    THEN build_uniqueness_filters(up, IF sp.need_scale THEN Some(sp) ELSE None,
                                  cf, Some(ass_name))
    ELSE BasicFilters(sp, cf, ass_name)

\* ---- inputs of the filter specification ----
AssFileName == "karaoke.ass"
FilterScalePlans ==
    {get_resolution_scale_params(w, h, m) :
        w \in 1..MaxDim, h \in 1..MaxDim, m \in {2, MaxMinRes}}
FilterCrops ==
    {NoCrop} \cup
    {[present |-> TRUE, width |-> 2, height |-> 2, x |-> x, y |-> 0] : x \in 0..1}
FilterProfiles == {ProfileOf(DrawsFrom(r, TotalDraws), 0) : r \in RngStates}

FilterInputs ==
    [caller : {"direct"}, enable_uniqueness : {TRUE},
     uniqueness_params : FilterProfiles,
     scale_params : {None} \cup {Some(sp) : sp \in FilterScalePlans},
     crop_filter : FilterCrops, ass_file : {None, Some(AssFileName)}]
    \cup
    [caller : {"burn"}, enable_uniqueness : BOOLEAN,
     uniqueness_params : FilterProfiles,
     scale_params : {Some(sp) : sp \in FilterScalePlans},
     crop_filter : FilterCrops, ass_file : {Some(AssFileName)}]

FilterInit ==
    /\ filter_args \in FilterInputs
    /\ video_filter = <<>>
    /\ filter_pc = "ready"

\* A call of build_uniqueness_filters by any caller.
BuildUniquenessFilters ==
    /\ filter_pc = "ready"
    /\ filter_args.caller = "direct"
    /\ video_filter' = build_uniqueness_filters(filter_args.uniqueness_params,
                                                filter_args.scale_params,
                                                filter_args.crop_filter,
                                                filter_args.ass_file)
    /\ filter_pc' = "done"
    /\ UNCHANGED <<filter_args, layoutVars, styleVars, renderVars, geoVars,
                   uniqVars, jobVars>>

\* The chain burn_karaoke_subtitles hands to ffmpeg.
BurnFilterChain ==
    /\ filter_pc = "ready"
    /\ filter_args.caller = "burn"
    /\ video_filter' = BurnFilters(filter_args.enable_uniqueness,
                                   filter_args.uniqueness_params,
                                   filter_args.scale_params.val,
                                   filter_args.crop_filter,
                                   filter_args.ass_file.val)
    /\ filter_pc' = "done"
    /\ UNCHANGED <<filter_args, layoutVars, styleVars, renderVars, geoVars,
                   uniqVars, jobVars>>

FilterNext == BuildUniquenessFilters \/ BurnFilterChain

(***************************************************************************)
(* api_service: start_process, process_video_job and delete_job            *)
(***************************************************************************)
\* ---- inputs of the job specification ----
MaxVideos == 3

\* str(uuid.uuid4()): identifiers that never repeat.
JobIds == {"job-1", "job-2"}

\* What happens to one video inside the loop of process_video_job: transcribe
\* returns nothing, create_karaoke_subtitles returns nothing, the burnt file
\* does not exist, a call raises, or the output is moved and recorded.
Outcomes ==
    {"transcription_empty", "karaoke_empty", "output_missing", "exception",
     "success"}

\* A job_id for which no background task exists.
IdleTask == [pc |-> "none", video_files |-> 0, i |-> 0, output_files |-> <<>>]

\* jobs = {} when the module is loaded. created_at and updated_at hold wall
\* clock readings that no step reads back; the records below leave them out.
JobsInit ==
    /\ jobs = <<>>
    /\ tasks = [job_id \in JobIds |-> IdleTask]
    /\ status_code = 0

\* update_job_status: jobs[job_id].update(kwargs) if job_id in jobs
update_job_status(js, job_id, kwargs) ==
    IF job_id \in DOMAIN js THEN [js EXCEPT ![job_id] = kwargs @@ @] ELSE js

\* The handler of the outer try: status='failed', error=str(e)
JobFailed(js, job_id, e) ==
    update_job_status(js, job_id, [status |-> "failed", error |-> Some(e)])

\* The counter updates of one loop iteration: processed_files + 1 together
\* with the output list on success, failed_files + 1 on every other outcome.
VideoOutcome_MissingOutputUncounted(js, job_id, outcome, output_files) ==
    IF outcome = "success"
    THEN update_job_status(js, job_id,
             [processed_files |-> js[job_id].processed_files + 1,
              output_files |-> output_files])
    ELSE IF outcome = "output_missing" THEN js
    ELSE update_job_status(js, job_id,
             [failed_files |-> js[job_id].failed_files + 1])

VideoOutcome(js, job_id, outcome, output_files) ==
    IF outcome = "success"
    THEN update_job_status(js, job_id,
             [processed_files |-> js[job_id].processed_files + 1,
              output_files |-> output_files])
    ELSE update_job_status(js, job_id,
             [failed_files |-> js[job_id].failed_files + 1])

\* POST /api/process: 400 when none of the file ids matches an upload,
\* otherwise a pending job under a fresh id and a queued background task.
start_process ==
    /\ \E found \in 0..MaxVideos :
         IF found = 0
         THEN /\ status_code' = 400
              /\ UNCHANGED <<jobs, tasks>>
         ELSE \E job_id \in JobIds :
                /\ tasks[job_id].pc = "none"
                /\ jobs' = (job_id :> [job_id |-> job_id,
                                       status |-> "pending",
                                       progress |-> 0,
                                       current_file |-> None,
                                       total_files |-> found,
                                       processed_files |-> 0,
                                       failed_files |-> 0,
                                       output_files |-> <<>>,
                                       error |-> None]) @@ jobs
                /\ tasks' = [tasks EXCEPT ![job_id] =
                                [pc |-> "queued", video_files |-> found,
                                 i |-> 0, output_files |-> <<>>]]
                /\ status_code' = 200
    /\ UNCHANGED <<layoutVars, styleVars, renderVars, filterVars, geoVars,
                   uniqVars>>

\* process_video_job, first statement: status='processing',
\* total_files=len(video_files), progress=0
JobBegin ==
    /\ \E job_id \in JobIds :
         /\ tasks[job_id].pc = "queued"
         /\ jobs' = update_job_status(jobs, job_id,
                        [status |-> "processing",
                         total_files |-> tasks[job_id].video_files,
                         progress |-> 0])
         /\ tasks' = [tasks EXCEPT ![job_id].pc = "setup"]
    /\ UNCHANGED status_code
    /\ UNCHANGED <<layoutVars, styleVars, renderVars, filterVars, geoVars,
                   uniqVars>>

\* The output directory, SubsAI(), Tools() and create_model: any of them may
\* raise, which the outer handler turns into status 'failed'.
JobSetup ==
    /\ \E job_id \in JobIds, raised \in BOOLEAN :
         /\ tasks[job_id].pc = "setup"
         /\ IF raised
            THEN /\ jobs' = JobFailed(jobs, job_id, "setup")
                 /\ tasks' = [tasks EXCEPT ![job_id].pc = "ended"]
            ELSE /\ UNCHANGED jobs
                 /\ tasks' = [tasks EXCEPT ![job_id].pc = "loop"]
    /\ UNCHANGED status_code
    /\ UNCHANGED <<layoutVars, styleVars, renderVars, filterVars, geoVars,
                   uniqVars>>

\* One iteration of `for i, video_path in enumerate(video_files)`. Every
\* outcome reads jobs[job_id]: once the job has been deleted that read raises
\* KeyError, in the inner handler too, and the outer handler ends the task.
ProcessVideo ==
    /\ \E job_id \in JobIds, outcome \in Outcomes :
         /\ tasks[job_id].pc = "loop"
         /\ tasks[job_id].i < tasks[job_id].video_files
         /\ LET t            == tasks[job_id]
                video_path   == t.i + 1
                started      ==
                    update_job_status(jobs, job_id,
                        [current_file |-> Some(video_path),
                         progress |-> (t.i * 100) \div t.video_files])
                output_files ==
                    IF outcome = "success"
                    THEN Append(t.output_files, video_path)
                    ELSE t.output_files
            IN  IF job_id \in DOMAIN jobs
                THEN /\ jobs' = VideoOutcome(started, job_id, outcome,
                                             output_files)
                     /\ tasks' = [tasks EXCEPT
                                     ![job_id].i = t.i + 1,
                                     ![job_id].output_files = output_files]
                ELSE /\ jobs' = JobFailed(started, job_id, "KeyError")
                     /\ tasks' = [tasks EXCEPT
                                     ![job_id].pc = "ended",
                                     ![job_id].output_files = output_files]
    /\ UNCHANGED status_code
    /\ UNCHANGED <<layoutVars, styleVars, renderVars, filterVars, geoVars,
                   uniqVars>>

\* After the loop: status='completed', progress=100, current_file=None, and
\* then the log line that reads jobs[job_id].
JobComplete ==
    /\ \E job_id \in JobIds :
         /\ tasks[job_id].pc = "loop"
         /\ tasks[job_id].i = tasks[job_id].video_files
         /\ LET completed ==
                    update_job_status(jobs, job_id,
                        [status |-> "completed", progress |-> 100,
                         current_file |-> None])
            IN  jobs' = IF job_id \in DOMAIN jobs THEN completed
                        ELSE JobFailed(completed, job_id, "KeyError")
         /\ tasks' = [tasks EXCEPT ![job_id].pc = "ended"]
    /\ UNCHANGED status_code
    /\ UNCHANGED <<layoutVars, styleVars, renderVars, filterVars, geoVars,
                   uniqVars>>

\* DELETE /api/jobs/{job_id}: 404 for an unknown id, otherwise del jobs[job_id]
delete_job ==
    /\ \E job_id \in JobIds :
         IF job_id \notin DOMAIN jobs
         THEN /\ status_code' = 404
              /\ UNCHANGED jobs
         ELSE /\ jobs' = [k \in DOMAIN jobs \ {job_id} |-> jobs[k]]
              /\ status_code' = 200
    /\ UNCHANGED tasks
    /\ UNCHANGED <<layoutVars, styleVars, renderVars, filterVars, geoVars,
                   uniqVars>>

JobsNext ==
    \/ start_process
    \/ JobBegin
    \/ JobSetup
    \/ ProcessVideo
    \/ JobComplete
    \/ delete_job

(***************************************************************************)
(* Specifications                                                          *)
(***************************************************************************)
JobsOff == JobsInit

RenderOff ==
    /\ caption_words = <<>>
    /\ render_style = None
    /\ max_line_width_px = None
    /\ result_list = <<>>
    /\ current_line_width = 0
    /\ word_index = 0
    /\ render_pc = "off"

FilterOff ==
    /\ filter_args = None
    /\ video_filter = <<>>
    /\ filter_pc = "off"

LayoutOff ==
    /\ subs = <<>>
    /\ cfg_words_per_line = 0
    /\ words_per_line = 0
    /\ max_line_duration_ms = 0
    /\ words = <<>>
    /\ lines = <<>>
    /\ karaoke_subs = <<>>
    /\ gen_style = None
    /\ gen_pc = "off"

GeometryOff ==
    /\ frame = [width |-> 0, height |-> 0, rotation |-> 0]
    /\ aspect_ratio = NoAspect
    /\ min_resolution = 0
    /\ original_width = 0
    /\ original_height = 0
    /\ scale_result = NoScale(0, 0)
    /\ scale_params = NoScale(0, 0)
    /\ crop_filter = NoCrop
    /\ crop_path = "none"
    /\ geo_pc = "off"

StyleOff ==
    /\ style_args = None
    /\ style = None
    /\ got = <<>>
    /\ style_pc = "off"

UniqOff ==
    /\ rng = 0
    /\ clock = 0
    /\ workers = {}
    /\ call = <<>>
    /\ calls_left = 0
    /\ results = <<>>

\* KaraokeGenerator.generate on every bounded transcript and setting.
InitLayout ==
    /\ LayoutInit /\ StyleOff /\ RenderOff /\ FilterOff /\ GeometryOff /\ UniqOff
    /\ JobsOff

SpecLayout == InitLayout /\ [][Generate]_vars

\* get_style on every bounded name and override, then the accessors in any
\* order.
InitStyle ==
    /\ StyleInit /\ LayoutOff /\ RenderOff /\ FilterOff /\ GeometryOff /\ UniqOff
    /\ JobsOff

SpecStyle == InitStyle /\ [][StyleNext]_vars

\* The markup of one caption line, with and without wrapping.
InitRender ==
    /\ RenderInit /\ LayoutOff /\ StyleOff /\ FilterOff /\ GeometryOff /\ UniqOff
    /\ JobsOff

SpecRender == InitRender /\ [][RenderNext]_vars

\* The filter chain, built by build_uniqueness_filters called on its own and
\* by burn_karaoke_subtitles with uniqueness on and off.
InitFilters ==
    /\ FilterInit /\ LayoutOff /\ StyleOff /\ RenderOff /\ GeometryOff /\ UniqOff
    /\ JobsOff

SpecFilters == InitFilters /\ [][FilterNext]_vars

\* The geometry of burn_karaoke_subtitles on every bounded frame.
InitGeometry ==
    /\ GeometryInit /\ LayoutOff /\ StyleOff /\ RenderOff /\ FilterOff /\ UniqOff
    /\ JobsOff

SpecGeometry == InitGeometry /\ [][BurnGeometry]_vars

\* process_batch with max_workers = 1: calls follow one another.
InitSequential ==
    /\ UniqInit({1}, MaxCalls)
    /\ LayoutOff /\ StyleOff /\ RenderOff /\ FilterOff /\ GeometryOff /\ JobsOff

SpecSequential == InitSequential /\ [][UniqNext]_vars

\* process_batch with max_workers = 2: two pool threads, two videos.
InitConcurrent ==
    /\ UniqInit({1, 2}, 2)
    /\ LayoutOff /\ StyleOff /\ RenderOff /\ FilterOff /\ GeometryOff /\ JobsOff

SpecConcurrent == InitConcurrent /\ [][UniqNext]_vars

\* The web service: jobs are started, run in the background and deleted.
InitJobs ==
    /\ JobsInit
    /\ LayoutOff /\ StyleOff /\ RenderOff /\ FilterOff /\ GeometryOff /\ UniqOff

SpecJobs == InitJobs /\ [][JobsNext]_vars

(***************************************************************************)
(* Claims about KaraokeGenerator.generate                                  *)
(***************************************************************************)
RECURSIVE Flatten(_)
Flatten(ss) == IF ss = <<>> THEN <<>> ELSE Head(ss) \o Flatten(Tail(ss))

\* The whitespace-split tokens of the input events, in event order.
InputTokens == Flatten([i \in 1..Len(subs) |-> Split(subs[i].text)])

\* The word texts of the emitted caption lines, in line order.
OutputTokens ==
    Flatten([i \in 1..Len(karaoke_subs) |->
                [j \in 1..Len(karaoke_subs[i].words) |->
                    karaoke_subs[i].words[j].word]])

\* C1: once generate has run, the words of the emitted caption lines,
\* concatenated in line order, are exactly the whitespace-split tokens of the
\* input events in event order (nothing dropped, duplicated or reordered), and
\* no emitted line is empty.
C1_WordsPreserved ==
    gen_pc = "done" =>
        /\ OutputTokens = InputTokens
        /\ \A i \in 1..Len(karaoke_subs) : karaoke_subs[i].words # <<>>
        /\ \A i \in 1..Len(lines) : lines[i] # <<>>

\* Two events of which one holds two words, broken into at least two lines.
C1_Witness ==
    /\ gen_pc = "done"
    /\ Len(subs) = 2
    /\ Len(InputTokens) = 3
    /\ Len(karaoke_subs) >= 2
    /\ \E i \in 1..Len(karaoke_subs) : Len(karaoke_subs[i].words) = 2

\* C2: every caption line has at least one word and at most
\* max(1, min(20, words_per_line)) words, for the words_per_line configured.
C2_LineWordCount ==
    gen_pc = "done" =>
        LET cap == IF cfg_words_per_line < 1 THEN 1
                   ELSE IF cfg_words_per_line > 20 THEN 20
                   ELSE cfg_words_per_line
        IN  \A i \in 1..Len(lines) :
                Len(lines[i]) >= 1 /\ Len(lines[i]) <= cap

\* A line filled to the configured cap of two words and closed by the count
\* alone: the next word would still have fitted the duration cap.
C2_Witness ==
    /\ gen_pc = "done"
    /\ cfg_words_per_line = 2
    /\ Len(lines) >= 2
    /\ Len(lines[1]) = 2
    /\ lines[2][1].end - lines[1][1].start <= max_line_duration_ms

\* C3: every caption line lasts at most max_line_duration_ms from the start of
\* its first word to the end of its last word, unless it is a single word whose
\* own duration exceeds the cap.
LineDuration(line) == line[Len(line)].end - line[1].start

C3_LineDuration ==
    gen_pc = "done" =>
        \A i \in 1..Len(lines) :
            \/ LineDuration(lines[i]) <= max_line_duration_ms
            \/ /\ Len(lines[i]) = 1
               /\ lines[i][1].end - lines[i][1].start > max_line_duration_ms

\* A break forced by the duration cap alone (the count cap is 20), next to a
\* single-word line that exceeds the cap on its own.
C3_Witness ==
    /\ gen_pc = "done"
    /\ words_per_line = 20
    /\ Len(lines) >= 2
    /\ \E i \in 1..Len(lines) : Len(lines[i]) >= 2
    /\ \E i \in 1..Len(lines) :
          Len(lines[i]) = 1 /\ LineDuration(lines[i]) > max_line_duration_ms

\* The transcript's events are in time order, do not overlap and end after
\* they start.
WellFormedTranscript ==
    \A i \in 1..Len(subs) :
        /\ subs[i].end > subs[i].start
        /\ i > 1 => subs[i].start >= subs[i - 1].end

StrictlyIncreasing(ws) ==
    \A k \in 1..Len(ws) :
        /\ ws[k].start < ws[k].end
        /\ k > 1 => ws[k].start > ws[k - 1].start /\ ws[k].start >= ws[k - 1].end

\* Every event lasts at least as many milliseconds as it has tokens.
DurationsCoverTokens ==
    \A i \in 1..Len(subs) :
        subs[i].end - subs[i].start >= Len(Split(subs[i].text))

\* C11 as stated: for a transcript whose events are in time order,
\* non-overlapping and have end > start, each word has start < end, and each
\* word's start is greater than the previous word's start and not less than the
\* previous word's end.
C11_WordTimingsStrictlyIncreasing ==
    (gen_pc \in {"done", "raised"} /\ WellFormedTranscript) =>
        StrictlyIncreasing(words)

\* C11 as amended: the same, for transcripts in which moreover every event
\* lasts at least as many milliseconds as it has tokens.
C11_WordTimingsIncreasingWhenCovered ==
    (gen_pc \in {"done", "raised"} /\ WellFormedTranscript /\ DurationsCoverTokens) =>
        StrictlyIncreasing(words)

\* A well-formed transcript with an event of several tokens.
C11_Witness ==
    /\ gen_pc = "done"
    /\ WellFormedTranscript
    /\ DurationsCoverTokens
    /\ Len(words) >= 2
    /\ \E i \in 1..Len(subs) : Len(Split(subs[i].text)) >= 2

\* The word timings the floor formula gives one event.
FloorWords(event) ==
    LET toks == Split(event.text)
        n    == Len(toks)
        d    == event.end - event.start
    IN  [i \in 1..n |->
            [word  |-> toks[i],
             start |-> event.start + (((i - 1) * d) \div n),
             end   |-> event.start + ((i * d) \div n)]]

\* C12: for every event with n >= 1 tokens and duration d >= 0, token i
\* (0-based) has start = event.start + floor(i*d/n) and
\* end = event.start + floor((i+1)*d/n); and "Hello world this is a test" over
\* 0..3000 with words_per_line 5 and max_line_duration_ms 5000 gives two lines,
\* five words over 0..2500 and one word over 2500..3000.
C12_FloorFormula ==
    (gen_pc \in {"done", "raised"}
     /\ \A i \in 1..Len(subs) : subs[i].end >= subs[i].start) =>
        /\ words = Flatten([i \in 1..Len(subs) |-> FloorWords(subs[i])])
        /\ (subs = <<HelloWorldEvent>> /\ gen_pc = "done") =>
              /\ Len(lines) = 2
              /\ Len(lines[1]) = 5 /\ Len(lines[2]) = 1
              /\ lines[1][1].start = 0 /\ lines[1][5].end = 2500
              /\ lines[2][1].start = 2500 /\ lines[2][1].end = 3000

\* Every event's text is empty or whitespace only (an empty transcript
\* included).
AllBlank ==
    \A i \in 1..Len(subs) : \A j \in 1..Len(subs[i].text) : IsSpace(subs[i].text[j])

\* C20: for an empty transcript, and for one whose events all have empty or
\* whitespace-only text, generate returns zero caption lines and does not
\* raise, whatever the style preset and the overrides.
C20_BlankTranscriptNoLines ==
    (gen_pc # "ready" /\ AllBlank) =>
        /\ gen_pc = "done"
        /\ karaoke_subs = <<>>
        /\ lines = <<>>

\* Whitespace-only events under a preset other than classic whose color
\* override would make the style unreadable.
C20_Witness ==
    /\ gen_pc = "done"
    /\ AllBlank
    /\ \E i \in 1..Len(subs) : subs[i].text # <<>>
    /\ gen_style.cls # "ClassicStyle"
    /\ SsaStyleRaises(gen_style)

(***************************************************************************)
(* Claims about get_style and the KaraokeStyle accessors                   *)
(***************************************************************************)
ColorAccessors == {"primary_color", "secondary_color"}

\* The override passed for a color accessor.
ColorOverride(a) ==
    IF a = "primary_color" THEN style_args.primary_color
    ELSE style_args.secondary_color

\* Exactly six hexadecimal digits after an optional single '#'.
SixDigits(c) == IF c # <<>> /\ c[1] = "#" THEN Tail(c) ELSE c
WellFormedColor(c) ==
    Len(SixDigits(c)) = 6 /\ \A i \in 1..6 : IsHexDigit(SixDigits(c)[i])

\* C13: a color accessor whose override is not exactly six hexadecimal digits
\* after an optional single '#' (the empty string included) raises to its
\* caller; it neither returns a color nor falls back to the preset default.
C13_MalformedColorRaises ==
    \A a \in ColorAccessors :
        (/\ style_pc = "resolved"
         /\ got[a].read
         /\ ColorOverride(a).some
         /\ ~WellFormedColor(ColorOverride(a).val)) => got[a].raised

\* Channel k (1 = R, 2 = G, 3 = B) of a well-formed color.
Channel(c, k) ==
    16 * HexDigitValue(SixDigits(c)[2 * k - 1]) + HexDigitValue(SixDigits(c)[2 * k])

ColorIs(a, c, v) == ColorOverride(a).val = c => got[a].val = v

SameIgnoringCase(a, b) ==
    Len(a) = Len(b) /\ \A i \in 1..Len(a) : LowerChar(a[i]) = LowerChar(b[i])

\* C17: each accessor returns the override whenever one was supplied (0 and
\* the empty string included; for a color, the override converted) and the
\* preset default only when none was supplied.
C17_OverrideElseDefault ==
    style_pc = "resolved" =>
        /\ got["fontname"].read =>
              got["fontname"].val = IF style_args.fontname.some
                                    THEN style_args.fontname.val
                                    ELSE DefaultFontname
        /\ got["fontsize"].read =>
              got["fontsize"].val = IF style_args.fontsize.some
                                    THEN style_args.fontsize.val
                                    ELSE StyleDefaults[style.cls].fontsize
        /\ got["vertical_margin"].read =>
              got["vertical_margin"].val =
                  IF style_args.vertical_margin.some
                  THEN style_args.vertical_margin.val
                  ELSE StyleDefaults[style.cls].vertical_margin
        /\ \A a \in ColorAccessors :
              got[a].read =>
                  got[a] = IF ColorOverride(a).some
                           THEN Read(hex_to_ass_color(ColorOverride(a).val))
                           ELSE Read(Returned(StyleDefaults[style.cls][a]))

\* C18: get_style finds the class by name without regard to case among
\* classic, modern, neon, elegant and anime, returns the classic class for
\* every other name, and hands the overrides on unchanged.
C18_UnknownNameIsClassic ==
    style_pc = "resolved" =>
        /\ \A e \in STYLE_CLASSES :
              SameIgnoringCase(style_args.style_name, e[1]) => style.cls = e[2]
        /\ (\A e \in STYLE_CLASSES : ~SameIgnoringCase(style_args.style_name, e[1]))
              => style.cls = "ClassicStyle"
        /\ style_args.style_name = <<"N", "E", "O", "N">> => style.cls = "NeonStyle"
        /\ style_args.style_name = <<"f", "o", "o", "b", "a", "r">>
              => style.cls = "ClassicStyle"
        /\ style.custom_fontsize = style_args.fontsize
        /\ style.custom_vertical_margin = style_args.vertical_margin
        /\ style.custom_fontname = style_args.fontname
        /\ style.custom_primary_color = style_args.primary_color
        /\ style.custom_secondary_color = style_args.secondary_color

\* "foobar" with a font size override, read back through the accessor.
C18_Witness ==
    /\ style_pc = "resolved"
    /\ style_args.style_name = <<"f", "o", "o", "b", "a", "r">>
    /\ style_args.fontsize = Some(56)
    /\ style.cls = "ClassicStyle"
    /\ got["fontsize"].read
    /\ got["fontsize"].val = 56
    /\ got["vertical_margin"].read
    /\ got["vertical_margin"].val = 120

(***************************************************************************)
(* Claims about the frame geometry                                         *)
(***************************************************************************)
\* The frame the filter chain outputs: the crop if there is one, else the
\* scaled frame if there is one, else the source frame.
ScaledWidth ==
    IF scale_params.need_scale THEN scale_params.target_width ELSE original_width
ScaledHeight ==
    IF scale_params.need_scale THEN scale_params.target_height ELSE original_height
FinalWidth == IF crop_filter.present THEN crop_filter.width ELSE ScaledWidth
FinalHeight == IF crop_filter.present THEN crop_filter.height ELSE ScaledHeight

\* The aspect ratio string parses as two positive integers.
PositiveRatio ==
    /\ aspect_ratio.kind = "string"
    /\ Len(aspect_ratio.fields) = 2
    /\ \A i \in 1..2 : aspect_ratio.fields[i].num /\ aspect_ratio.fields[i].val > 0

\* C4: for a target ratio of two positive integers, the short side of the
\* final output frame is at least min_resolution, whichever path ran.
C4_ShortSideAtLeastMin ==
    (geo_pc = "done" /\ PositiveRatio) =>
        Min(FinalWidth, FinalHeight) >= min_resolution

\* C5: a crop rectangle lies inside the frame it is applied to (the scaled
\* frame when scaling is on, else the source frame).
C5_CropInsideFrame ==
    (geo_pc = "done" /\ crop_filter.present) =>
        /\ crop_filter.x >= 0
        /\ crop_filter.y >= 0
        /\ crop_filter.x + crop_filter.width <= ScaledWidth
        /\ crop_filter.y + crop_filter.height <= ScaledHeight

\* An upscaled frame that is then cropped off-origin.
C5_Witness ==
    /\ geo_pc = "done"
    /\ crop_filter.present
    /\ scale_params.need_scale
    /\ crop_filter.x > 0

IsRatio(a, w, h) == a = AspectString(<<IntField(w), IntField(h)>>)
CropIs(w, h, x, y) ==
    crop_filter = [present |-> TRUE, width |-> w, height |-> h, x |-> x, y |-> y]

\* C6: a 1920x1080 source with min_resolution 1080 keeps its 1080 height and
\* is center-cropped in width: 9:16 to 608x1080, 4:3 to 1440x1080, 1:1 to
\* 1080x1080, and 16:9 is left uncropped at 1920x1080.
C6_Crops1920x1080 ==
    (/\ geo_pc = "done"
     /\ frame = [width |-> 1920, height |-> 1080, rotation |-> 0]
     /\ min_resolution = 1080) =>
        /\ IsRatio(aspect_ratio, 9, 16) =>
              CropIs(608, 1080, 656, 0) /\ ~scale_params.need_scale
        /\ IsRatio(aspect_ratio, 4, 3) =>
              CropIs(1440, 1080, 240, 0) /\ ~scale_params.need_scale
        /\ IsRatio(aspect_ratio, 1, 1) =>
              CropIs(1080, 1080, 420, 0) /\ ~scale_params.need_scale
        /\ IsRatio(aspect_ratio, 16, 9) =>
              ~crop_filter.present /\ ~scale_params.need_scale

\* C9: get_resolution_scale_params applied to the dimensions it returned
\* reports need_scale = False.
C9_ScaleIdempotent ==
    geo_pc = "done" =>
        ~get_resolution_scale_params(scale_result.target_width,
                                     scale_result.target_height,
                                     min_resolution).need_scale

IsEven(n) == n % 2 = 0

\* C10: the target dimensions of every scale plan with need_scale set (as
\* returned by get_resolution_scale_params, or as rewritten by the crop
\* calculation) and the width and height of every crop are even.
C10_EvenDimensions ==
    geo_pc = "done" =>
        /\ scale_result.need_scale =>
              IsEven(scale_result.target_width) /\ IsEven(scale_result.target_height)
        /\ scale_params.need_scale =>
              IsEven(scale_params.target_width) /\ IsEven(scale_params.target_height)
        /\ crop_filter.present =>
              IsEven(crop_filter.width) /\ IsEven(crop_filter.height)

\* An odd min_resolution that was upscaled to, with the plan then rewritten
\* by the crop calculation.
C10_Witness ==
    /\ geo_pc = "done"
    /\ min_resolution % 2 = 1
    /\ scale_result.need_scale
    /\ crop_path = "rescale"
    /\ scale_params # scale_result

\* A ratio string that is not two positive integers "W:H": the wrong number
\* of fields, a non-numeric field, or a zero or negative W or H.
NotTwoPositiveIntegers(fs) ==
    \/ Len(fs) # 2
    \/ \E i \in 1..Len(fs) : ~fs[i].num \/ fs[i].val <= 0

\* C15: for every aspect ratio string that is not parseable as two positive
\* integers "W:H", the crop calculation raises nothing, yields no crop, and
\* leaves the scale plan exactly as get_resolution_scale_params produced it.
C15_UnparseableRatioNoCrop ==
    (/\ geo_pc = "done"
     /\ aspect_ratio.kind = "string"
     /\ NotTwoPositiveIntegers(aspect_ratio.fields))
    => /\ ~crop_filter.present
       /\ scale_params = scale_result

\* floor(dimension * min_resolution / short), rounded down to an even number
FloorScaled(dimension, min_res, short) ==
    LET q == (dimension * min_res) \div short IN q - (q % 2)

\* C19: with short = min(width, height): if short >= min_resolution the scale
\* plan has need_scale false and the dimensions unchanged (3840x2160 with
\* min_resolution 1080 among them); otherwise need_scale is true and each
\* dimension is floor(dimension * min_resolution / short) rounded down to
\* the nearest even number.
C19_ScaleFormula ==
    geo_pc = "done" =>
        LET short == Min(original_width, original_height)
        IN  /\ short >= min_resolution =>
                scale_result = NoScale(original_width, original_height)
            /\ short < min_resolution =>
                scale_result =
                    [need_scale    |-> TRUE,
                     target_width  |->
                        FloorScaled(original_width, min_resolution, short),
                     target_height |->
                        FloorScaled(original_height, min_resolution, short)]
            /\ (original_width = 3840 /\ original_height = 2160
                    /\ min_resolution = 1080) => ~scale_result.need_scale

\* C22: for every parseable ratio W:H and every base frame that is cropped,
\* the ideal dimensions are anchored at min_resolution on the shorter axis of
\* the target shape: the smaller of the two equals min_resolution floored to
\* even, the other equals min_resolution scaled by the target ratio, floored
\* to even.
C22_IdealAnchoredOnShortAxis ==
    (geo_pc = "done" /\ PositiveRatio /\ crop_filter.present) =>
        LET tw == aspect_ratio.fields[1].val
            th == aspect_ratio.fields[2].val
        IN  /\ Min(crop_filter.width, crop_filter.height)
                   = FloorScaled(min_resolution, 1, 1)
            /\ Max(crop_filter.width, crop_filter.height)
                   = FloorScaled(min_resolution, Max(tw, th), Min(tw, th))

\* The frame the crop calculation starts from, and the ratio it compares.
BaseWidth ==
    IF scale_result.need_scale THEN scale_result.target_width ELSE original_width
BaseHeight ==
    IF scale_result.need_scale THEN scale_result.target_height ELSE original_height
TargetW == aspect_ratio.fields[1].val
TargetH == aspect_ratio.fields[2].val
\* |base_ratio - target_ratio| / target_ratio >= 0.01, in exact arithmetic
DiffersByOnePercent ==
    LET lhs == 100 * Abs(BaseWidth * TargetH - TargetW * BaseHeight)
        rhs == TargetW * BaseHeight
    IN  IF TargetW * TargetH > 0 THEN lhs >= Abs(rhs) ELSE FALSE
BaseIsWider == BaseWidth * TargetH * TargetH > TargetW * BaseHeight * TargetH
IdealW ==
    IF TargetH < 0 THEN IdealWidth(-TargetW, -TargetH, BaseIsWider, min_resolution)
    ELSE IdealWidth(TargetW, TargetH, BaseIsWider, min_resolution)
IdealH ==
    IF TargetH < 0 THEN IdealHeight(-TargetW, -TargetH, BaseIsWider, min_resolution)
    ELSE IdealHeight(TargetW, TargetH, BaseIsWider, min_resolution)
TooSmallToCrop ==
    \/ BaseWidth < IdealW
    \/ BaseHeight < IdealH
    \/ Min(BaseWidth, BaseHeight) < min_resolution
RatioParsed == aspect_ratio.kind = "string" /\ ~ParseFails(aspect_ratio.fields)

\* C23: when the base frame differs from the target ratio by 1% or more and
\* is too small to crop to the ideal dimensions, there is no crop and the
\* scale plan becomes need_scale with exactly the ideal dimensions; when the
\* difference is below 1% there is no crop and the scale plan is unchanged.
C23_TooSmallRescalesToIdeal ==
    (geo_pc = "done" /\ RatioParsed) =>
        /\ (DiffersByOnePercent /\ TooSmallToCrop) =>
              /\ ~crop_filter.present
              /\ scale_params = [need_scale |-> TRUE, target_width |-> IdealW,
                                 target_height |-> IdealH]
        /\ ~DiffersByOnePercent =>
              /\ ~crop_filter.present
              /\ scale_params = scale_result

\* C27: the additional-upscale step of the center-crop path is never taken:
\* whenever a crop is produced the ideal dimensions are within the base frame
\* on both axes, the scale plan is the one get_resolution_scale_params
\* returned, and the offsets are computed against the unmodified base frame.
C27_NoAdditionalUpscale ==
    geo_pc = "done" =>
        /\ crop_path # "crop_upscaled"
        /\ crop_filter.present =>
              /\ crop_filter.width <= BaseWidth
              /\ crop_filter.height <= BaseHeight
              /\ scale_params = scale_result
              /\ crop_filter.x = (BaseWidth - crop_filter.width) \div 2
              /\ crop_filter.y = (BaseHeight - crop_filter.height) \div 2

\* A crop of a frame that was first upscaled to min_resolution.
C27_Witness ==
    /\ geo_pc = "done"
    /\ crop_path = "crop"
    /\ scale_result.need_scale
    /\ crop_filter.y > 0

(***************************************************************************)
(* Claims about calculate_uniqueness_params                                *)
(***************************************************************************)
SameInputs(a, b) ==
    /\ a.input_file = b.input_file
    /\ a.index = b.index
    /\ a.instant = b.instant
    /\ a.meta_instant = b.meta_instant

\* C7: two calls with the same file, the same index and the same clock
\* readings return the same dict, whatever ran before them.
C7_SameInputsSameProfile ==
    \A i, j \in 1..Len(results) :
        SameInputs(results[i], results[j]) => results[i].params = results[j].params

\* Three calls in a row, the first and the last with the same inputs and a
\* call with another seed between them.
C7_Witness ==
    /\ Len(results) = 3
    /\ SameInputs(results[1], results[3])
    /\ ~SameInputs(results[1], results[2])
    /\ results[2].params # results[1].params

\* The dict a call returns when no other call runs during it.
AloneProfile(r) ==
    ProfileOf(DrawsFrom(SeededState(0, SeedOf(r.input_file, r.instant, r.index)),
                        TotalDraws),
              r.meta_instant)

\* C8: whatever the interleaving of two concurrent calls, each returns the
\* dict it would return when run alone.
C8_ConcurrentCallsIndependent ==
    \A i \in 1..Len(results) : results[i].params = AloneProfile(results[i])

\* C21: every field of a sampled profile lies in its documented range: crf
\* in 15..19, preset in {slow, slower, veryslow}, me in {umh, hex}, subme in
\* {7,8,9}, ref in {3,4,5}, audio_bitrate in {192k,224k,256k},
\* audio_sample_rate in {44100,48000}, creation_time 1 to 30 days plus 0 to
\* 23 hours before the instant it was read, title and comment empty.
C21_ProfileWithinRanges ==
    \A i \in 1..Len(results) :
        LET p == results[i].params
        IN  /\ p.crf \in 15..19
            /\ p.preset \in {"slow", "slower", "veryslow"}
            /\ p.x264_params.me \in {"umh", "hex"}
            /\ p.x264_params.subme \in {7, 8, 9}
            /\ p.x264_params.ref \in {3, 4, 5}
            /\ p.audio_bitrate \in {"192k", "224k", "256k"}
            /\ p.audio_sample_rate \in {44100, 48000}
            /\ p.metadata.creation_time.now = results[i].meta_instant
            /\ p.metadata.creation_time.days_ago \in 1..30
            /\ p.metadata.creation_time.hours_ago \in 0..23
            /\ p.metadata.title = ""
            /\ p.metadata.comment = ""

\* Two returned profiles, one with the lowest crf and one with the highest.
C21_Witness ==
    /\ \E i \in 1..Len(results) : results[i].params.crf = 15
    /\ \E i \in 1..Len(results) : results[i].params.crf = 19

(***************************************************************************)
(* Claims about the video filter chain                                     *)
(***************************************************************************)
\* The place of a stage in the fixed order: scale, crop, color adjustment,
\* noise injection, subtitle overlay.
StageRank(stage) ==
    CASE stage = "scale" -> 1
      [] stage = "crop"  -> 2
      [] stage = "eq"    -> 3
      [] stage = "noise" -> 4
      [] stage = "ass"   -> 5

\* C16: whichever stages are present, the filter chain lists them in the
\* order scale, crop, color adjustment, noise injection, subtitle overlay:
\* no stage comes before one that precedes it in this order, no stage comes
\* twice, and the subtitle overlay, when present, is the last element, with
\* uniqueness enabled and without.
C16_FilterStageOrder ==
    filter_pc = "done" =>
        /\ \A i, j \in 1..Len(video_filter) :
              i < j => StageRank(video_filter[i].stage)
                           < StageRank(video_filter[j].stage)
        /\ \A i \in 1..Len(video_filter) :
              video_filter[i].stage = "ass" => i = Len(video_filter)

\* All five stages in one chain built by burn_karaoke_subtitles.
C16_Witness ==
    /\ filter_pc = "done"
    /\ filter_args.caller = "burn"
    /\ Len(video_filter) = 5
    /\ video_filter[5].stage = "ass"

AppendedPieces ==
    SubSeq(result_list', Len(result_list) + 1, Len(result_list'))

\* C24: with wrapping, a line break goes before a word exactly when the word
\* is not the first and running width + space width + word width exceeds 0.8
\* of the wrap width, the widths being fontsize x 1.0 per wide character, x 0.3
\* per space and x 0.6 per other character; after a break the running width
\* restarts at 0 and no space is emitted, so that it becomes the word's width;
\* otherwise the space and the word are added to the running width.
C24_BreakExactlyWhenTooWide ==
    [][(render_pc = "wrap" /\ word_index' = word_index + 1) =>
          LET i           == word_index
              fontsize    == get_fontsize(render_style).val
              word_width  ==
                  estimate_text_width(caption_words[i + 1].word, fontsize)
              space_width == IF i > 0 THEN 3 * fontsize ELSE 0
              running     == current_line_width + space_width + word_width
              broke       == Head(AppendedPieces) = BreakPiece
          IN  /\ broke <=> (i > 0 /\ running > 8 * max_line_width_px.val)
              /\ broke => /\ \A k \in 1..Len(AppendedPieces) :
                                AppendedPieces[k] # SpacePiece
                          /\ current_line_width' = word_width
              /\ ~broke => current_line_width' = running]_vars

\* The number of places where pat occurs in text.
Occurrences(text, pat) ==
    Cardinality({k \in 0..(Len(text) - Len(pat)) :
                    SubSeq(text, k + 1, k + Len(pat)) = pat})

AlignBottom == <<"{", "\\", "a", "n", "2", "}">>
AlignMiddle == <<"{", "\\", "a", "n", "5", "}">>
AlignOverride == <<"\\", "a", "n">>
LineBreakMarker == <<"\\", "N">>

\* C25: for every preset and every non-empty word list, the markup built with
\* wrapping starts with {\an2}, holds {\an2} exactly once and never holds
\* {\an5}; the markup built without wrapping holds no alignment override and
\* no line-break marker.
C25_AlignmentTagOnlyWithWrap ==
    (render_pc = "done" /\ caption_words # <<>>) =>
        LET markup == Join(result_list)
        IN  IF WrapMode(max_line_width_px)
            THEN /\ Len(markup) >= Len(AlignBottom)
                 /\ SubSeq(markup, 1, Len(AlignBottom)) = AlignBottom
                 /\ Occurrences(markup, AlignBottom) = 1
                 /\ Occurrences(markup, AlignMiddle) = 0
            ELSE /\ Occurrences(markup, AlignOverride) = 0
                 /\ Occurrences(markup, LineBreakMarker) = 0

\* The whole centiseconds of a duration, at least 1.
FillCentiseconds(word) ==
    LET d == word.end - word.start
        q == CHOOSE c \in (IF d < 0 THEN d ELSE 0)..(IF d < 0 THEN 0 ELSE d) :
                 10 * c <= d /\ d < 10 * (c + 1)
    IN  IF q < 1 THEN 1 ELSE q

\* The fill tag of a word followed by the word.
TaggedWord(word) ==
    <<"{", "\\", "k", "f">> \o ToDecimal(FillCentiseconds(word)) \o <<"}">>
        \o word.word

\* The tagged words in order, joined by one space.
RECURSIVE SpacedWords(_)
SpacedWords(ws) ==
    IF Len(ws) = 1 THEN TaggedWord(ws[1])
    ELSE TaggedWord(ws[1]) \o <<" ">> \o SpacedWords(Tail(ws))

\* C26: without wrapping, the markup of a non-empty word list is the words in
\* order, each preceded by a fill tag whose duration is
\* max(1, floor((end - start) / 10)) centiseconds, joined by one space and
\* with no space after the last word.
C26_NoWrapMarkup ==
    (render_pc = "done" /\ caption_words # <<>>
        /\ ~WrapMode(max_line_width_px)) =>
        Join(result_list) = SpacedWords(caption_words)

\* A markup of several words built without wrapping, one word shorter than
\* 10 ms and one of 2505 ms.
C26_Witness ==
    /\ render_pc = "done"
    /\ ~WrapMode(max_line_width_px)
    /\ Len(caption_words) >= 2
    /\ \E k \in 1..Len(caption_words) :
          caption_words[k].end - caption_words[k].start = 9
    /\ \E k \in 1..Len(caption_words) :
          caption_words[k].end - caption_words[k].start = 2505

\* C28: with wrapping, for two words or more and every fontsize override,
\* exactly one separator, a space or a line break, stands between consecutive
\* words, and no break comes before the first word: the pieces are the
\* alignment tag, the first word, and then a separator and a word for each
\* further word.
C28_OneSeparatorBetweenWords ==
    (render_pc = "done" /\ WrapMode(max_line_width_px)
        /\ Len(caption_words) >= 2) =>
        /\ Len(result_list) = 2 * Len(caption_words)
        /\ result_list[1] = AlignPiece
        /\ \A k \in 1..Len(caption_words) :
              /\ result_list[2 * k] = WordPiece(caption_words[k])
              /\ k > 1 => result_list[2 * k - 1] \in {SpacePiece, BreakPiece}

(***************************************************************************)
(* Claims about the jobs of the web service                                *)
(***************************************************************************)
\* The moves of a job's status.
StatusMoves ==
    {<<"pending", "processing">>, <<"processing", "completed">>,
     <<"processing", "failed">>}

\* The videos of a job that have been counted, as a success or as a failure.
Counted(job) == job.processed_files + job.failed_files

\* C30: whatever happens to each video (empty transcription, empty karaoke
\* generation, missing output file, exception, success), every video
\* processed adds one to exactly one of processed_files and failed_files and
\* nothing else changes them, so that processed_files + failed_files never
\* exceeds total_files and equals it when the status is 'completed'; a job
\* starts as 'pending' with both counters at 0, and its status only moves
\* from pending to processing and from processing to completed or failed.
C30_JobCountersAndStatus ==
    /\ [](\A job_id \in DOMAIN jobs :
            /\ Counted(jobs[job_id]) <= jobs[job_id].total_files
            /\ jobs[job_id].status = "completed" =>
                   Counted(jobs[job_id]) = jobs[job_id].total_files)
    /\ [][\A job_id \in DOMAIN jobs' :
            IF job_id \notin DOMAIN jobs
            THEN /\ jobs'[job_id].status = "pending"
                 /\ jobs'[job_id].processed_files = 0
                 /\ jobs'[job_id].failed_files = 0
            ELSE LET old == jobs[job_id]
                     new == jobs'[job_id]
                 IN  /\ \/ new.status = old.status
                        \/ <<old.status, new.status>> \in StatusMoves
                     /\ new.processed_files >= old.processed_files
                     /\ new.failed_files >= old.failed_files
                     /\ Counted(new) =
                            IF tasks'[job_id].i = tasks[job_id].i + 1
                            THEN Counted(old) + 1 ELSE Counted(old)]_vars

\* A job of several videos that completed with a success and a failure,
\* next to a job whose task failed before its first video.
C30_Witness ==
    /\ \E job_id \in DOMAIN jobs :
          /\ jobs[job_id].status = "completed"
          /\ jobs[job_id].processed_files >= 1
          /\ jobs[job_id].failed_files >= 1
    /\ \E job_id \in DOMAIN jobs : jobs[job_id].status = "failed"

====
